---- MODULE Spec2Model ----
(***************************************************************************)
(* Model of chartmogul_to_slack.py: one process run reads three settings,  *)
(* fetches the paying-customer count, renders a card and publishes it to   *)
(* a channel through a three-step upload.  Successive runs share only the  *)
(* font cache file and the wall clock.                                     *)
(***************************************************************************)
EXTENDS Integers, Sequences, FiniteSets, TLC

VARIABLES
    CHARTMOGUL_API_KEY, SLACK_BOT_TOKEN, SLACK_CHANNEL_ID,
    pc,            \* position of the run in main()
    run,           \* number of the current process run
    clock,         \* the calendar day date.today() returns
    cacheFile,     \* content of <tmp>/Poppins-Regular.ttf
    installed,     \* font files present on the machine
    calls,         \* outbound requests urlopen() has issued in this run
    stdout, stderr,
    exitStatus,    \* <<>> while running, <<n>> once the process has ended
    raised,        \* <<>> or <<exception>> that ended the run
    data,          \* get_paying_customers: <<>> or <<decoded response>>
    count,         \* main: <<>> or <<count>>
    today_str,     \* generate_image: <<>> or <<formatted date>>
    poppins_data,  \* download_poppins: <<>> or <<downloaded bytes>>
    image_bytes,   \* main: <<>> or <<card>>
    filename,      \* upload_image_to_slack: <<>> or <<filename>>
    up_today_str,  \* upload_image_to_slack: <<>> or <<formatted date>>
    resp1, resp3,  \* upload_image_to_slack: <<>> or <<decoded response>>
    dl             \* runs that are inside generate_image at the same time, each
                   \* with its position and the locals of download_poppins

vars == << CHARTMOGUL_API_KEY, SLACK_BOT_TOKEN, SLACK_CHANNEL_ID, pc, run,
           clock, cacheFile, installed, calls, stdout, stderr, exitStatus,
           raised, data, count, today_str, poppins_data, image_bytes,
           filename, up_today_str, resp1, resp3, dl >>

-----------------------------------------------------------------------------
(* Bounds *)

MaxRuns == 2
MaxDay == 1
MaxEntries == 2
FormatSpread == 8

-----------------------------------------------------------------------------
(* Input domains *)

KeyValues == {"", "cm-key"}
TokenValues == {"", "xoxb-token"}
ChannelValues == {"", "C012AB3CD"}

CustomerValues == {-1, 842, 1234567}

RECURSIVE SeqsUpTo(_, _)
SeqsUpTo(S, n) ==
    IF n = 0 THEN {<<>>}
    ELSE LET shorter == SeqsUpTo(S, n - 1)
         IN  shorter \cup {Append(s, x) : s \in {t \in shorter : Len(t) = n - 1}, x \in S}

EntryValues == {[customers |-> c] : c \in CustomerValues}

\* Decoded bodies of a 2xx answer of the metric API.
MetricBodies ==
    {[entries |-> es] : es \in SeqsUpTo(EntryValues, MaxEntries)}
        \cup {[summary |-> <<>>]}

HttpErrorCodes == {401, 500}
HttpErrorBodies == {"unauthorized", "server error"}
NetworkReasons == {"timed out"}

SlackErrors == {"invalid_auth", "channel_not_found"}

Slots == {[upload_url |-> "https://files.slack.com/upload/1", file_id |-> "F1"],
          [upload_url |-> "https://files.slack.com/upload/2", file_id |-> "F2"]}

\* Decoded bodies of a 2xx answer of files.getUploadURLExternal.
SlotBodies ==
    {[ok |-> TRUE, upload_url |-> s.upload_url, file_id |-> s.file_id] : s \in Slots}
        \cup {[ok |-> FALSE, error |-> e] : e \in SlackErrors}

\* Decoded bodies of a 2xx answer of files.completeUploadExternal.
FinalizeBodies ==
    {[ok |-> TRUE]} \cup {[ok |-> FALSE, error |-> e] : e \in SlackErrors}

FontFiles == {"SongMyung-Regular.ttf", "DejaVuSans.ttf", "LiberationSans-Regular.ttf"}

-----------------------------------------------------------------------------
(* Python helpers *)

\* dict.get(key, default)
Get(d, key, default) == IF key \in DOMAIN d THEN d[key] ELSE default

\* truthiness of a str
Truthy(s) == s # ""

Contains(msg, part) == \E i \in DOMAIN msg : msg[i] = part

\* Mutant: index 0 instead of -1.
First(s) == s[1]

Last(s) == s[Len(s)]

\* date.isoformat() and date.strftime("%B %d, %Y") of calendar day d,
\* day 0 being June 1, 2024
isoformat(d) == "2024-06-0" \o ToString(d + 1)
strftime(d) == "June 0" \o ToString(d + 1) \o ", 2024"

RECURSIVE Digits(_)
Digits(n) ==
    LET d == <<"0", "1", "2", "3", "4", "5", "6", "7", "8", "9">>[(n % 10) + 1]
    IN  IF n < 10 THEN <<d>> ELSE Append(Digits(n \div 10), d)

\* Mutant: the groups of three are counted from the left.
FormatThousands_from_left(n) ==
    LET ds == Digits(IF n < 0 THEN -n ELSE n)
        L == Len(ds)
        piece(i) == IF i > 1 /\ (i - 1) % 3 = 0 THEN <<",", ds[i]>> ELSE <<ds[i]>>
        RECURSIVE from(_)
        from(i) == IF i > L THEN <<>> ELSE piece(i) \o from(i + 1)
    IN  (IF n < 0 THEN <<"-">> ELSE <<>>) \o from(1)

\* f"{n:,}": sign, then the decimal digits with a comma before every group
\* of three counted from the right.
FormatThousands(n) ==
    LET ds == Digits(IF n < 0 THEN -n ELSE n)
        L == Len(ds)
        piece(i) == IF i > 1 /\ (L - i + 1) % 3 = 0 THEN <<",", ds[i]>> ELSE <<ds[i]>>
        RECURSIVE from(_)
        from(i) == IF i > L THEN <<>> ELSE piece(i) \o from(i + 1)
    IN  (IF n < 0 THEN <<"-">> ELSE <<>>) \o from(1)

\* ', '.join(names)
RECURSIVE Join(_)
Join(names) ==
    IF Len(names) = 0 THEN <<>>
    ELSE IF Len(names) = 1 THEN names
    ELSE <<names[1], ", ">> \o Join(Tail(names))

-----------------------------------------------------------------------------
(* Exceptions and how a run ends *)

RuntimeError(msg) == [type |-> "RuntimeError", msg |-> msg]
ValueError(msg) == [type |-> "ValueError", msg |-> msg]
HTTPError(code, reason) ==
    [type |-> "HTTPError", msg |-> <<"HTTP Error ", ToString(code), ": ", reason>>]
URLError(reason) ==
    [type |-> "URLError", msg |-> <<"<urlopen error ", reason, ">">>]

\* A request as urlopen() sends it, with the status it came back with
\* (0: no answer) and the reason the remote side gave for a failure.
Call(kind, url, name, date, status, reason) ==
    [kind |-> kind, url |-> url, name |-> name, date |-> date,
     status |-> status, reason |-> reason]

\* The reason phrase of the status line of an HTTP answer.
ReasonPhrase(status) ==
    IF status = 401 THEN "Unauthorized"
    ELSE IF status = 500 THEN "Internal Server Error"
    ELSE "OK"

\* Mutant: a catch-all handler reports the exception and ends with status 0.
Uncaught_exit0(e) ==
    /\ raised' = <<e>>
    /\ stderr' = Append(stderr, <<"Traceback", e.type>> \o e.msg)
    /\ exitStatus' = <<0>>
    /\ pc' = "exited"

\* Mutant: a handler swallows the exception and the statement runs again.
Uncaught_retry(e) ==
    /\ raised' = <<e>>
    /\ stderr' = stderr
    /\ exitStatus' = exitStatus
    /\ pc' = pc

\* An exception nobody catches leaves main(): the interpreter prints the
\* traceback and the process ends with status 1.
Uncaught(e) ==
    /\ raised' = <<e>>
    /\ stderr' = Append(stderr, <<"Traceback", e.type>> \o e.msg)
    /\ exitStatus' = <<1>>
    /\ pc' = "exited"

-----------------------------------------------------------------------------
(* Initial state: the module has been loaded, main() is about to run *)

Init ==
    /\ CHARTMOGUL_API_KEY \in KeyValues
    /\ SLACK_BOT_TOKEN \in TokenValues
    /\ SLACK_CHANNEL_ID \in ChannelValues
    /\ pc = "main"
    /\ run = 1
    /\ clock = 0
    \* absent, complete, or left empty by a run that ended between open() and
    \* write()
    /\ cacheFile \in {<<>>, <<"ttf">>, <<"">>}
    /\ installed \in SUBSET FontFiles
    /\ calls = <<>>
    /\ stdout = <<>>
    /\ stderr = <<>>
    /\ exitStatus = <<>>
    /\ raised = <<>>
    /\ data = <<>>
    /\ count = <<>>
    /\ today_str = <<>>
    /\ poppins_data = <<>>
    /\ image_bytes = <<>>
    /\ filename = <<>>
    /\ up_today_str = <<>>
    /\ resp1 = <<>>
    /\ resp3 = <<>>
    /\ dl = <<>>

-----------------------------------------------------------------------------
(* main() *)

\* Mutant: the test of SLACK_CHANNEL_ID is missing.
MissingSettings_no_channel ==
    (IF Truthy(CHARTMOGUL_API_KEY) THEN <<>> ELSE <<"CHARTMOGUL_API_KEY">>)
        \o (IF Truthy(SLACK_BOT_TOKEN) THEN <<>> ELSE <<"SLACK_BOT_TOKEN">>)

\* The names main() collects in `errors`, in the order it tests them.
MissingSettings ==
    (IF Truthy(CHARTMOGUL_API_KEY) THEN <<>> ELSE <<"CHARTMOGUL_API_KEY">>)
        \o (IF Truthy(SLACK_BOT_TOKEN) THEN <<>> ELSE <<"SLACK_BOT_TOKEN">>)
        \o (IF Truthy(SLACK_CHANNEL_ID) THEN <<>> ELSE <<"SLACK_CHANNEL_ID">>)

main_check ==
    /\ pc = "main"
    /\ LET errors == MissingSettings
       IN  IF Len(errors) > 0
           THEN /\ stderr' = Append(stderr,
                        <<"ERROR: Missing environment variables: ">> \o Join(errors))
                /\ exitStatus' = <<1>>
                /\ pc' = "exited"
                /\ UNCHANGED stdout
           ELSE /\ stdout' = Append(stdout,
                        <<"Fetching paying customer count from ChartMogul...">>)
                /\ pc' = "fetch"
                /\ UNCHANGED <<stderr, exitStatus>>
    /\ UNCHANGED << dl, CHARTMOGUL_API_KEY, SLACK_BOT_TOKEN, SLACK_CHANNEL_ID, run,
                    clock, cacheFile, installed, calls, raised, data, count, today_str,
                    poppins_data, image_bytes, filename, up_today_str, resp1, resp3 >>

-----------------------------------------------------------------------------
(* urlopen() *)

HttpStatuses == {200} \cup HttpErrorCodes

\* Mutant: a failed request is treated like an answered one.
urlopen_swallow(status) == TRUE

\* urlopen() returns the response for a 2xx status and raises HTTPError for
\* any other one.
urlopen_ok(status) == status \in 200..299

-----------------------------------------------------------------------------
(* get_paying_customers() *)

METRIC_URL == "https://api.chartmogul.com/v1/metrics/customer-count"

\* Mutant: the message leaves out the response body.
provider_error_no_body(code, body) ==
    <<"ChartMogul API error ", ToString(code)>>

\* The message of the RuntimeError raised for an HTTPError of the metric API.
provider_error(code, body) ==
    <<"ChartMogul API error ", ToString(code), ": ", body>>

\* Mutant: the emptiness test is missing.
no_entries_skipped(entries) == FALSE

\* `not entries`
no_entries(entries) == Len(entries) = 0

get_paying_customers ==
    /\ pc = "fetch"
    /\ LET today == isoformat(clock)
           sent(status, reason) ==
               Append(calls, Call("metric_fetch", METRIC_URL, "", today, status, reason))
       IN  \/ \E status \in HttpStatuses, body \in MetricBodies :
                /\ urlopen_ok(status)
                /\ calls' = sent(status, "")
                /\ data' = <<body>>
                /\ LET entries == Get(body, "entries", <<>>)
                   IN  IF no_entries(entries)
                       THEN /\ Uncaught(ValueError(
                                    <<"No ChartMogul data returned for ", today, ".">>))
                            /\ UNCHANGED count
                       ELSE IF Len(entries) = 0
                       THEN /\ Uncaught([type |-> "IndexError",
                                         msg |-> <<"list index out of range">>])
                            /\ UNCHANGED count
                       ELSE /\ count' = <<Last(entries)["customers"]>>
                            /\ pc' = "fetched"
                            /\ UNCHANGED <<raised, stderr, exitStatus>>
           \/ \E status \in HttpStatuses, body \in HttpErrorBodies :
                /\ ~urlopen_ok(status)
                /\ calls' = sent(status, body)
                /\ Uncaught(RuntimeError(provider_error(status, body)))
                /\ UNCHANGED <<data, count>>
           \/ \E reason \in NetworkReasons :
                /\ calls' = sent(0, reason)
                /\ Uncaught(URLError(reason))
                /\ UNCHANGED <<data, count>>
    /\ UNCHANGED << dl, CHARTMOGUL_API_KEY, SLACK_BOT_TOKEN, SLACK_CHANNEL_ID, run,
                    clock, cacheFile, installed, stdout, today_str, poppins_data,
                    image_bytes, filename, up_today_str, resp1, resp3 >>

main_after_fetch ==
    /\ pc = "fetched"
    /\ stdout' = stdout \o << <<"  -> ", FormatThousands(count[1]), " paying customers">>,
                              <<"Generating image...">> >>
    /\ pc' = "render"
    /\ UNCHANGED << dl, CHARTMOGUL_API_KEY, SLACK_BOT_TOKEN, SLACK_CHANNEL_ID, run,
                    clock, cacheFile, installed, calls, stderr, exitStatus, raised,
                    data, count, today_str, poppins_data, image_bytes, filename,
                    up_today_str, resp1, resp3 >>

-----------------------------------------------------------------------------
(* generate_image() *)

IMAGE_WIDTH == 900
IMAGE_HEIGHT == 420

POPPINS_URL == "https://github.com/google/fonts/raw/main/ofl/poppins/Poppins-Regular.ttf"
CACHE_PATH == "Poppins-Regular.ttf"

FontBodies == {"ttf"}

\* Import of Pillow and the date the card shows.
generate_image_begin ==
    /\ pc = "render"
    /\ \/ /\ today_str' = <<strftime(clock)>>
          /\ pc' = "download_poppins"
          /\ UNCHANGED <<raised, stderr, exitStatus>>
       \/ /\ Uncaught(RuntimeError(<<"Pillow is not installed. Run: pip install Pillow">>))
          /\ UNCHANGED today_str
    /\ UNCHANGED << dl, CHARTMOGUL_API_KEY, SLACK_BOT_TOKEN, SLACK_CHANNEL_ID, run,
                    clock, cacheFile, installed, calls, stdout, data, count,
                    poppins_data, image_bytes, filename, up_today_str, resp1, resp3 >>

\* Mutant: the existence test is missing and the font is always downloaded.
cache_missing_always == TRUE

\* `not os.path.exists(cache_path)`
cache_missing == cacheFile = <<>>

\* The existence test of the cache file and, on a miss, the download.
download_poppins_fetch ==
    /\ pc = "download_poppins"
    /\ LET sent(status, reason) ==
               Append(calls, Call("font_fetch", POPPINS_URL, "", "", status, reason))
       IN  IF cache_missing
           THEN \/ \E status \in HttpStatuses, bytes \in FontBodies :
                     /\ urlopen_ok(status)
                     /\ calls' = sent(status, "")
                     /\ poppins_data' = <<bytes>>
                     /\ pc' = "write_cache"
                     /\ UNCHANGED <<raised, stderr, exitStatus>>
                \/ \E status \in HttpStatuses :
                     /\ ~urlopen_ok(status)
                     /\ calls' = sent(status, ReasonPhrase(status))
                     /\ Uncaught(HTTPError(status, ReasonPhrase(status)))
                     /\ UNCHANGED poppins_data
                \/ \E reason \in NetworkReasons :
                     /\ calls' = sent(0, reason)
                     /\ Uncaught(URLError(reason))
                     /\ UNCHANGED poppins_data
           ELSE /\ pc' = "load_fonts"
                /\ UNCHANGED <<calls, poppins_data, raised, stderr, exitStatus>>
    /\ UNCHANGED << dl, CHARTMOGUL_API_KEY, SLACK_BOT_TOKEN, SLACK_CHANNEL_ID, run,
                    clock, cacheFile, installed, stdout, data, count, today_str,
                    image_bytes, filename, up_today_str, resp1, resp3 >>

\* open(cache_path, "wb") and f.write(data)
download_poppins_write ==
    /\ pc = "write_cache"
    /\ cacheFile' = poppins_data
    /\ pc' = "load_fonts"
    /\ UNCHANGED << dl, CHARTMOGUL_API_KEY, SLACK_BOT_TOKEN, SLACK_CHANNEL_ID, run,
                    clock, installed, calls, stdout, stderr, exitStatus, raised,
                    data, count, today_str, poppins_data, image_bytes, filename,
                    up_today_str, resp1, resp3 >>

\* ImageFont.truetype(path, size) succeeds
loadable(path) ==
    IF path = CACHE_PATH THEN cacheFile = <<"ttf">> ELSE path \in installed

system_fallbacks == <<"DejaVuSans.ttf", "LiberationSans-Regular.ttf">>

RECURSIVE first_loadable(_)
first_loadable(paths) ==
    IF Len(paths) = 0 THEN "load_default"
    ELSE IF loadable(paths[1]) THEN paths[1]
    ELSE first_loadable(Tail(paths))

\* Mutant: the fallback paths are not tried.
load_font_no_fallbacks(path, fallback_paths) ==
    IF loadable(path) THEN path ELSE "load_default"

load_font(path, fallback_paths) ==
    IF loadable(path) THEN path ELSE first_loadable(fallback_paths)

\* Font loading, the three text draws and the PNG encoding; back in main().
generate_image_draw ==
    /\ pc = "load_fonts"
    /\ image_bytes' = << [ size      |-> <<IMAGE_WIDTH, IMAGE_HEIGHT>>,
                          format     |-> "PNG",
                          label      |-> "PAYING CUSTOMERS",
                          num_str    |-> FormatThousands(count[1]),
                          date_str   |-> today_str[1],
                          font_big   |-> load_font("SongMyung-Regular.ttf", system_fallbacks),
                          font_label |-> load_font(CACHE_PATH, system_fallbacks),
                          font_date  |-> load_font(CACHE_PATH, system_fallbacks) ] >>
    /\ pc' = "rendered"
    /\ UNCHANGED << dl, CHARTMOGUL_API_KEY, SLACK_BOT_TOKEN, SLACK_CHANNEL_ID, run,
                    clock, cacheFile, installed, calls, stdout, stderr, exitStatus,
                    raised, data, count, today_str, poppins_data, filename, up_today_str, resp1, resp3 >>

\* Mutant: the progress line of the upload stage is missing.
main_after_render_silent ==
    /\ pc = "rendered"
    /\ stdout' = Append(stdout, <<"  -> Image generated">>)
    /\ pc' = "upload"
    /\ UNCHANGED << dl, CHARTMOGUL_API_KEY, SLACK_BOT_TOKEN, SLACK_CHANNEL_ID, run,
                    clock, cacheFile, installed, calls, stderr, exitStatus, raised,
                    data, count, today_str, poppins_data, image_bytes, filename,
                    up_today_str, resp1, resp3 >>

main_after_render ==
    /\ pc = "rendered"
    /\ stdout' = stdout \o << <<"  -> Image generated">>, <<"Uploading image to Slack...">> >>
    /\ pc' = "upload"
    /\ UNCHANGED << dl, CHARTMOGUL_API_KEY, SLACK_BOT_TOKEN, SLACK_CHANNEL_ID, run,
                    clock, cacheFile, installed, calls, stderr, exitStatus, raised,
                    data, count, today_str, poppins_data, image_bytes, filename,
                    up_today_str, resp1, resp3 >>

-----------------------------------------------------------------------------
(* upload_image_to_slack() *)

SLOT_URL == "https://slack.com/api/files.getUploadURLExternal"
COMPLETE_URL == "https://slack.com/api/files.completeUploadExternal"

\* str() of a value read with dict.get(key): None when the key is absent.
StrOfGet(d, key) == Get(d, key, "None")

\* Mutant: the test of the slot answer is missing.
slot_failed_skipped(resp) == FALSE

\* `not resp1.get("ok")`
slot_failed(resp) == ~Get(resp, "ok", FALSE)

\* The message of the RuntimeError raised for a refused slot request.
slot_error(resp) ==
    <<"Slack getUploadURLExternal failed: ", StrOfGet(resp, "error")>>

\* Mutant: the test of the finalize answer is missing.
finalize_failed_skipped(resp) == FALSE

\* `not resp3.get("ok")`
finalize_failed(resp) == ~Get(resp, "ok", FALSE)

\* The message of the RuntimeError raised for a refused finalize.
finalize_error(resp) ==
    <<"Slack completeUploadExternal failed: ", StrOfGet(resp, "error")>>

KeyError(key) == [type |-> "KeyError", msg |-> <<key>>]

\* Mutant: a URL kept from an earlier upload instead of the one just returned.
upload_url_stale == "https://files.slack.com/upload/1"

\* The locals upload_url and file_id, read from the slot response.
upload_url == resp1[1]["upload_url"]
file_id == resp1[1]["file_id"]

\* filename = f"paying-customers-{date.today().isoformat()}.png"
upload_filename ==
    /\ pc = "upload"
    /\ filename' = <<"paying-customers-" \o isoformat(clock) \o ".png">>
    /\ pc' = "step1"
    /\ UNCHANGED << dl, CHARTMOGUL_API_KEY, SLACK_BOT_TOKEN, SLACK_CHANNEL_ID, run,
                    clock, cacheFile, installed, calls, stdout, stderr, exitStatus,
                    raised, data, count, today_str, poppins_data, image_bytes,
                    up_today_str, resp1, resp3 >>

\* today_str, then step 1: the slot request and the test of its answer.
upload_step1 ==
    /\ pc = "step1"
    /\ up_today_str' = <<strftime(clock)>>
    /\ LET sent(status, reason) ==
               Append(calls, Call("slot_request", SLOT_URL, filename[1], "", status, reason))
       IN  \/ \E status \in HttpStatuses, body \in SlotBodies :
                /\ urlopen_ok(status)
                /\ calls' = sent(status, StrOfGet(body, "error"))
                /\ resp1' = <<body>>
                /\ IF slot_failed(body)
                   THEN Uncaught(RuntimeError(slot_error(body)))
                   ELSE IF "upload_url" \notin DOMAIN body
                   THEN Uncaught(KeyError("upload_url"))
                   ELSE /\ pc' = "step2"
                        /\ UNCHANGED <<raised, stderr, exitStatus>>
           \/ \E status \in HttpStatuses :
                /\ ~urlopen_ok(status)
                /\ calls' = sent(status, ReasonPhrase(status))
                /\ Uncaught(HTTPError(status, ReasonPhrase(status)))
                /\ UNCHANGED resp1
           \/ \E reason \in NetworkReasons :
                /\ calls' = sent(0, reason)
                /\ Uncaught(URLError(reason))
                /\ UNCHANGED resp1
    /\ UNCHANGED << dl, CHARTMOGUL_API_KEY, SLACK_BOT_TOKEN, SLACK_CHANNEL_ID, run,
                    clock, cacheFile, installed, stdout, data, count, today_str,
                    poppins_data, image_bytes, filename, resp3 >>

\* Mutant: a failed transfer is followed by a call that deletes the slot.
upload_step2_rollback ==
    /\ pc = "step2"
    /\ LET sent(status, reason) ==
               Append(calls, Call("byte_transfer", upload_url, "", "", status, reason))
           deleted(cs) ==
               Append(cs, Call("files.delete", "https://slack.com/api/files.delete",
                               file_id, "", 200, ""))
       IN  \/ \E status \in HttpStatuses :
                /\ urlopen_ok(status)
                /\ calls' = sent(status, "")
                /\ pc' = "step3"
                /\ UNCHANGED <<raised, stderr, exitStatus>>
           \/ \E status \in HttpStatuses :
                /\ ~urlopen_ok(status)
                /\ calls' = deleted(sent(status, ReasonPhrase(status)))
                /\ Uncaught(HTTPError(status, ReasonPhrase(status)))
           \/ \E reason \in NetworkReasons :
                /\ calls' = deleted(sent(0, reason))
                /\ Uncaught(URLError(reason))
    /\ UNCHANGED << dl, CHARTMOGUL_API_KEY, SLACK_BOT_TOKEN, SLACK_CHANNEL_ID, run,
                    clock, cacheFile, installed, stdout, data, count, today_str,
                    poppins_data, image_bytes, filename, up_today_str, resp1,
                    resp3 >>

\* Step 2: the bytes go to upload_url; the answer is read and dropped.
upload_step2 ==
    /\ pc = "step2"
    /\ LET sent(status, reason) ==
               Append(calls, Call("byte_transfer", upload_url, "", "", status, reason))
       IN  \/ \E status \in HttpStatuses :
                /\ urlopen_ok(status)
                /\ calls' = sent(status, "")
                /\ pc' = "step3"
                /\ UNCHANGED <<raised, stderr, exitStatus>>
           \/ \E status \in HttpStatuses :
                /\ ~urlopen_ok(status)
                /\ calls' = sent(status, ReasonPhrase(status))
                /\ Uncaught(HTTPError(status, ReasonPhrase(status)))
           \/ \E reason \in NetworkReasons :
                /\ calls' = sent(0, reason)
                /\ Uncaught(URLError(reason))
    /\ UNCHANGED << dl, CHARTMOGUL_API_KEY, SLACK_BOT_TOKEN, SLACK_CHANNEL_ID, run,
                    clock, cacheFile, installed, stdout, data, count, today_str,
                    poppins_data, image_bytes, filename, up_today_str, resp1,
                    resp3 >>

\* Step 3: the finalize call and the test of its answer; back in main().
upload_step3 ==
    /\ pc = "step3"
    /\ LET sent(status, reason) ==
               Append(calls, Call("finalize", COMPLETE_URL, file_id, up_today_str[1],
                                  status, reason))
       IN  \/ \E status \in HttpStatuses, body \in FinalizeBodies :
                /\ urlopen_ok(status)
                /\ calls' = sent(status, StrOfGet(body, "error"))
                /\ resp3' = <<body>>
                /\ IF finalize_failed(body)
                   THEN Uncaught(RuntimeError(finalize_error(body)))
                   ELSE /\ pc' = "uploaded"
                        /\ UNCHANGED <<raised, stderr, exitStatus>>
           \/ \E status \in HttpStatuses :
                /\ ~urlopen_ok(status)
                /\ calls' = sent(status, ReasonPhrase(status))
                /\ Uncaught(HTTPError(status, ReasonPhrase(status)))
                /\ UNCHANGED resp3
           \/ \E reason \in NetworkReasons :
                /\ calls' = sent(0, reason)
                /\ Uncaught(URLError(reason))
                /\ UNCHANGED resp3
    /\ UNCHANGED << dl, CHARTMOGUL_API_KEY, SLACK_BOT_TOKEN, SLACK_CHANNEL_ID, run,
                    clock, cacheFile, installed, stdout, data, count, today_str,
                    poppins_data, image_bytes, filename, up_today_str, resp1 >>

\* The last line of main(); the process ends with status 0.
main_done ==
    /\ pc = "uploaded"
    /\ stdout' = Append(stdout, <<"  -> Posted successfully!">>)
    /\ exitStatus' = <<0>>
    /\ pc' = "exited"
    /\ UNCHANGED << dl, CHARTMOGUL_API_KEY, SLACK_BOT_TOKEN, SLACK_CHANNEL_ID, run,
                    clock, cacheFile, installed, calls, stderr, raised, data, count,
                    today_str, poppins_data, image_bytes, filename, up_today_str,
                    resp1, resp3 >>

-----------------------------------------------------------------------------
(* Environment *)

\* Midnight passes.
Tick ==
    /\ clock < MaxDay
    /\ clock' = clock + 1
    /\ UNCHANGED << dl, CHARTMOGUL_API_KEY, SLACK_BOT_TOKEN, SLACK_CHANNEL_ID, pc, run,
                    cacheFile, installed, calls, stdout, stderr, exitStatus, raised,
                    data, count, today_str, poppins_data, image_bytes, filename,
                    up_today_str, resp1, resp3 >>

\* The script is started again: the settings are read from the environment
\* and nothing but the files on disk is left of the run before.
NewRun ==
    /\ pc = "exited"
    /\ run < MaxRuns
    /\ run' = run + 1
    /\ CHARTMOGUL_API_KEY' \in KeyValues
    /\ SLACK_BOT_TOKEN' \in TokenValues
    /\ SLACK_CHANNEL_ID' \in ChannelValues
    /\ pc' = "main"
    /\ calls' = <<>>
    /\ stdout' = <<>>
    /\ stderr' = <<>>
    /\ exitStatus' = <<>>
    /\ raised' = <<>>
    /\ data' = <<>>
    /\ count' = <<>>
    /\ today_str' = <<>>
    /\ poppins_data' = <<>>
    /\ image_bytes' = <<>>
    /\ filename' = <<>>
    /\ up_today_str' = <<>>
    /\ resp1' = <<>>
    /\ resp3' = <<>>
    /\ UNCHANGED <<clock, cacheFile, installed, dl>>

Next ==
    \/ main_check
    \/ get_paying_customers
    \/ main_after_fetch
    \/ generate_image_begin
    \/ download_poppins_fetch
    \/ download_poppins_write
    \/ generate_image_draw
    \/ main_after_render
    \/ upload_filename
    \/ upload_step1
    \/ upload_step2
    \/ upload_step3
    \/ main_done
    \/ Tick
    \/ NewRun

Spec == Init /\ [][Next]_vars

-----------------------------------------------------------------------------
(* Vocabulary of the properties *)

CallsOf(kind) == {i \in DOMAIN calls : calls[i].kind = kind}
Issued(kind) == CallsOf(kind) # {}

Answered(c) == c.status \in 200..299

PublishKinds == {"slot_request", "byte_transfer", "finalize"}

Aborted == pc = "exited" /\ raised # <<>> /\ exitStatus # <<>> /\ exitStatus # <<0>>

Printed(line) == \E i \in DOMAIN stdout : stdout[i] = <<line>>

PostedLine == "  -> Posted successfully!"

RenderStarted == Printed("Generating image...") \/ today_str # <<>> \/ Issued("font_fetch")
PublishStarted ==
    \/ Printed("Uploading image to Slack...")
    \/ filename # <<>>
    \/ \E k \in PublishKinds : Issued(k)

-----------------------------------------------------------------------------
(* Publish: the slot request *)

\* C1: whenever the slot answer has ok false with error string e, the run has
\* aborted with an error whose message contains e, and neither the byte
\* transfer nor the finalize call has been issued.
C1_SlotRefused ==
    (resp1 # <<>> /\ resp1[1]["ok"] = FALSE) =>
        /\ Aborted
        /\ "error" \in DOMAIN resp1[1] => Contains(raised[1].msg, resp1[1]["error"])
        /\ ~Issued("byte_transfer")
        /\ ~Issued("finalize")

C1_Witness ==
    /\ resp1 # <<>>
    /\ resp1[1]["ok"] = FALSE
    /\ resp1[1]["error"] = "invalid_auth"
    /\ Issued("slot_request")
    /\ pc = "exited"

\* C2: whenever the byte transfer failed, the run has aborted and no finalize
\* call has been issued; a finalize call is preceded by a byte transfer that
\* was answered with success.
C2_TransferFailed ==
    /\ (\E i \in CallsOf("byte_transfer") : ~Answered(calls[i])) =>
            Aborted /\ ~Issued("finalize")
    /\ \A i \in CallsOf("finalize") :
            \E j \in CallsOf("byte_transfer") : j < i /\ Answered(calls[j])

C2_Witness ==
    /\ \E i \in CallsOf("byte_transfer") : calls[i].status = 500
    /\ pc = "exited"

\* C3: whenever the finalize answer has ok false, the run has aborted with an
\* error carrying the remote error string and never prints the success line;
\* the success line is printed only when the finalize answer has ok true.
C3_FinalizeRefused ==
    /\ (resp3 # <<>> /\ resp3[1]["ok"] = FALSE) =>
            /\ Aborted
            /\ "error" \in DOMAIN resp3[1] => Contains(raised[1].msg, resp3[1]["error"])
            /\ ~Printed(PostedLine)
    /\ Printed(PostedLine) => (resp3 # <<>> /\ resp3[1]["ok"] = TRUE)

C3_Witness ==
    /\ resp3 # <<>>
    /\ resp3[1]["ok"] = FALSE
    /\ resp3[1]["error"] = "channel_not_found"
    /\ pc = "exited"

-----------------------------------------------------------------------------
(* Configuration *)

SettingNames == {"CHARTMOGUL_API_KEY", "SLACK_BOT_TOKEN", "SLACK_CHANNEL_ID"}

SettingValue(name) ==
    IF name = "CHARTMOGUL_API_KEY" THEN CHARTMOGUL_API_KEY
    ELSE IF name = "SLACK_BOT_TOKEN" THEN SLACK_BOT_TOKEN
    ELSE SLACK_CHANNEL_ID

Unset == {n \in SettingNames : SettingValue(n) = ""}

\* C4: when some required setting is unset or empty, the run issues no
\* network request at all, never gets past the check, and ends with a
\* non-zero status after reporting exactly the names of the missing settings.
C4_MissingSettings ==
    Unset # {} =>
        /\ calls = <<>>
        /\ pc \in {"main", "exited"}
        /\ pc = "exited" =>
              /\ exitStatus # <<>> /\ exitStatus[1] # 0
              /\ Len(stderr) = 1
              /\ stderr[1][1] = "ERROR: Missing environment variables: "
              /\ {stderr[1][i] : i \in DOMAIN stderr[1]} \cap SettingNames = Unset

C4_Witness ==
    /\ Unset = {"SLACK_BOT_TOKEN", "SLACK_CHANNEL_ID"}
    /\ pc = "exited"
    /\ Len(stderr) = 1

-----------------------------------------------------------------------------
(* Fetch *)

\* C5: whenever the provider's success answer has an empty or absent entries
\* array, the run has aborted with the no-data error, the render stage has
\* not started and no publish call has been issued.
C5_NoData ==
    (data # <<>> /\ Get(data[1], "entries", <<>>) = <<>>) =>
        /\ Aborted
        /\ raised[1].type = "ValueError"
        /\ raised[1].msg[1] = "No ChartMogul data returned for "
        /\ count = <<>>
        /\ ~RenderStarted
        /\ image_bytes = <<>>
        /\ ~PublishStarted

C5_Witness ==
    /\ data # <<>>
    /\ "entries" \in DOMAIN data[1]
    /\ data[1]["entries"] = <<>>
    /\ pc = "exited"

C5_WitnessAbsent ==
    /\ data # <<>>
    /\ "entries" \notin DOMAIN data[1]
    /\ pc = "exited"

\* C6: whenever the metric call came back with a non-success status, the run
\* has aborted with a provider error carrying the status code and the
\* response body, and neither rendering nor any publish call has happened.
C6_ProviderError ==
    \A i \in CallsOf("metric_fetch") :
        (calls[i].status # 0 /\ ~Answered(calls[i])) =>
            /\ Aborted
            /\ raised[1].type = "RuntimeError"
            /\ raised[1].msg[1] = "ChartMogul API error "
            /\ Contains(raised[1].msg, ToString(calls[i].status))
            /\ Contains(raised[1].msg, calls[i].reason)
            /\ ~RenderStarted
            /\ image_bytes = <<>>
            /\ ~PublishStarted

C6_Witness ==
    /\ \E i \in CallsOf("metric_fetch") :
            calls[i].status = 401 /\ calls[i].reason = "unauthorized"
    /\ pc = "exited"

-----------------------------------------------------------------------------
(* Publish: the error of a failed step *)

\* The prefixes by which the code's own errors name a publish step.
StepPrefixes(kind) ==
    IF kind = "slot_request" THEN {"Slack getUploadURLExternal failed: "}
    ELSE IF kind = "finalize" THEN {"Slack completeUploadExternal failed: "}
    ELSE {}

\* C7: whichever publish step fails and however it fails, the error that
\* aborts the publish is the publisher's own error, names the failed step and
\* includes the reason the remote side reported.
C7_HandshakeError ==
    (Aborted /\ calls # <<>> /\ Last(calls).kind \in PublishKinds) =>
        /\ raised[1].type = "RuntimeError"
        /\ raised[1].msg[1] \in StepPrefixes(Last(calls).kind)
        /\ Contains(raised[1].msg, Last(calls).reason)

-----------------------------------------------------------------------------
(* The run as a whole *)

\* C8: the render stage starts only after the fetch returned, the publish
\* stage only after the render returned; once an error is raised the run is
\* over with a non-zero status; status zero means all three stages completed.
C8_AllOrNothing ==
    /\ RenderStarted => count # <<>>
    /\ PublishStarted => image_bytes # <<>>
    /\ raised # <<>> => Aborted
    /\ exitStatus = <<0>> =>
          /\ count # <<>>
          /\ image_bytes # <<>>
          /\ resp3 # <<>> /\ resp3[1]["ok"] = TRUE
          /\ Printed(PostedLine)
    /\ pc = "exited" => exitStatus # <<>>

C8_Witness ==
    /\ raised # <<>>
    /\ count # <<>>
    /\ image_bytes = <<>>
    /\ pc = "exited"

C8_WitnessDone == exitStatus = <<0>> /\ pc = "exited"

\* C9: in a run, each of the metric fetch, the slot request, the byte
\* transfer and the finalize call is issued at most once, whatever the
\* outcomes of the calls.
C9_NoRetry ==
    \A k \in {"metric_fetch", "slot_request", "byte_transfer", "finalize"} :
        Cardinality(CallsOf(k)) <= 1

C9_Witness ==
    /\ \E i \in CallsOf("byte_transfer") : ~Answered(calls[i])
    /\ \E i \in CallsOf("metric_fetch") : Answered(calls[i])
    /\ pc = "exited"

Rank(kind) ==
    IF kind = "metric_fetch" THEN 1
    ELSE IF kind = "font_fetch" THEN 2
    ELSE IF kind = "slot_request" THEN 3
    ELSE IF kind = "byte_transfer" THEN 4
    ELSE IF kind = "finalize" THEN 5
    ELSE 0

InOrder == \A i, j \in DOMAIN calls : i < j => Rank(calls[i].kind) < Rank(calls[j].kind)

\* C10 as stated: a run issues at most four outbound calls, each one of
\* metric fetch, slot request, byte transfer, finalize, in that order.
C10_FourCalls ==
    /\ Len(calls) <= 4
    /\ \A i \in DOMAIN calls : calls[i].kind \in {"metric_fetch"} \cup PublishKinds
    /\ InOrder

\* C10 amended: a run issues at most five outbound calls, each one of metric
\* fetch, font fetch, slot request, byte transfer, finalize, in that order;
\* no other call (no cleanup of an abandoned slot) is issued.
C10_FiveCalls ==
    /\ Len(calls) <= 5
    /\ \A i \in DOMAIN calls :
            calls[i].kind \in {"metric_fetch", "font_fetch"} \cup PublishKinds
    /\ InOrder

C10_Witness ==
    /\ Len(calls) = 4
    /\ Issued("font_fetch")
    /\ \E i \in CallsOf("byte_transfer") : ~Answered(calls[i])
    /\ pc = "exited"

-----------------------------------------------------------------------------
(* Render and the font download *)

\* C11: a failed font download does not block rendering: a run whose font
\* fetch failed does not end without a card.
C11_FontFetchFailureRenders ==
    (\E i \in CallsOf("font_fetch") : ~Answered(calls[i])) =>
        ~(pc = "exited" /\ image_bytes = <<>>)

-----------------------------------------------------------------------------
(* Progress lines *)

FetchLine == "Fetching paying customer count from ChartMogul..."
RenderLine == "Generating image..."
UploadLine == "Uploading image to Slack..."

\* The stage an aborted run failed in: the first one that did not return.
FailedStageLine ==
    IF count = <<>> THEN FetchLine
    ELSE IF image_bytes = <<>> THEN RenderLine
    ELSE UploadLine

\* C12: the progress line of a stage is printed before anything of the stage
\* is attempted, and in a run that aborts in a stage the last line printed is
\* the progress line of that stage.
C12_ProgressBeforeStage ==
    /\ (Issued("metric_fetch") \/ data # <<>> \/ count # <<>>) => Printed(FetchLine)
    /\ (today_str # <<>> \/ Issued("font_fetch") \/ image_bytes # <<>>)
            => Printed(RenderLine)
    /\ (filename # <<>> \/ \E k \in PublishKinds : Issued(k)) => Printed(UploadLine)
    /\ Aborted => (stdout # <<>> /\ stdout[Len(stdout)] = <<FailedStageLine>>)

C12_Witness ==
    /\ Aborted
    /\ image_bytes # <<>>
    /\ Issued("byte_transfer")
    /\ stdout[Len(stdout)] = <<UploadLine>>

-----------------------------------------------------------------------------
(* The metric value *)

\* C13: every value get_paying_customers returns is a non-negative integer,
\* whatever the entries of the response hold.
C13_NonNegative ==
    /\ count # <<>> => count[1] >= 0
    /\ image_bytes # <<>> => image_bytes[1].num_str[1] # "-"

-----------------------------------------------------------------------------
(* The run date *)

DayOfIso(str) == CHOOSE d \in 0..MaxDay : isoformat(d) = str
DayOfLong(str) == CHOOSE d \in 0..MaxDay : strftime(d) = str
DayOfFilename(str) ==
    CHOOSE d \in 0..MaxDay : str = "paying-customers-" \o isoformat(d) \o ".png"

\* The calendar days this run has used so far.
DaysUsed ==
    {DayOfIso(calls[i].date) : i \in CallsOf("metric_fetch")}
        \cup {DayOfLong(image_bytes[i].date_str) : i \in DOMAIN image_bytes}
        \cup {DayOfFilename(calls[i].name) : i \in CallsOf("slot_request")}
        \cup {DayOfLong(calls[i].date) : i \in CallsOf("finalize")}

\* C14: the date of the metric query, the date on the card, the date in the
\* upload filename and the date in the finalize title are one calendar date.
C14_SingleRunDate == Cardinality(DaysUsed) <= 1

-----------------------------------------------------------------------------
(* The entry selected *)

\* C15: for a response with a non-empty entries array, the value returned is
\* the customers value of the last entry.
C15_LastEntryWins ==
    (data # <<>> /\ "entries" \in DOMAIN data[1] /\ Len(data[1]["entries"]) > 0) =>
        LET entries == data[1]["entries"]
        IN  count = <<entries[Len(entries)]["customers"]>>

C15_Witness ==
    /\ data # <<>>
    /\ "entries" \in DOMAIN data[1]
    /\ Len(data[1]["entries"]) = 2
    /\ data[1]["entries"][1]["customers"] = 1234567
    /\ count = <<842>>

-----------------------------------------------------------------------------
(* The upload session *)

\* C17: the byte transfer goes to the upload URL this run's slot request
\* returned and the finalize call names the file id it returned; nothing of
\* an earlier run's session is used.
C17_SessionThreaded ==
    /\ \A i \in CallsOf("byte_transfer") :
            /\ resp1 # <<>>
            /\ \E j \in CallsOf("slot_request") : j < i /\ Answered(calls[j])
            /\ calls[i].url = resp1[1]["upload_url"]
    /\ \A i \in CallsOf("finalize") :
            /\ resp1 # <<>>
            /\ calls[i].name = resp1[1]["file_id"]
            /\ \E s \in Slots :
                  /\ s.file_id = calls[i].name
                  /\ \E j \in CallsOf("byte_transfer") : calls[j].url = s.upload_url

C17_Witness ==
    /\ run = 2
    /\ Issued("finalize")
    /\ resp1[1]["file_id"] = "F2"
    /\ \E i \in CallsOf("byte_transfer") : calls[i].url = "https://files.slack.com/upload/2"

-----------------------------------------------------------------------------
(* The font cache across successive runs *)

\* C19: once the cache file exists its content never changes and no font
\* fetch is issued, in this run or in any later one.
C19_CacheReused ==
    [][cacheFile # <<>> =>
          /\ cacheFile' = cacheFile
          /\ (calls' # calls /\ calls' # <<>>) => calls'[Len(calls')].kind # "font_fetch"]_vars

C19_Witness ==
    /\ run = 2
    /\ cacheFile = <<"ttf">>
    /\ image_bytes # <<>>
    /\ ~Issued("font_fetch")

-----------------------------------------------------------------------------
(* load_font *)

\* ImageFont.truetype succeeds on this path on this machine.
Loads(path) ==
    IF path = "Poppins-Regular.ttf" THEN cacheFile = <<"ttf">> ELSE path \in installed

\* The first candidate that loads, the primary first, then the fallbacks in
\* list order; the built-in font when none loads.
FirstThatLoads(primary) ==
    LET cands == <<primary, "DejaVuSans.ttf", "LiberationSans-Regular.ttf">>
        ok == {i \in DOMAIN cands : Loads(cands[i])}
    IN  IF ok = {} THEN "load_default"
        ELSE cands[CHOOSE i \in ok : \A j \in ok : i <= j]

\* C20: for each text role the font used is the first candidate that loads,
\* the built-in font when none does, and a run never ends in font loading.
C20_LoadFontOrder ==
    /\ image_bytes # <<>> =>
          /\ image_bytes[1].font_big = FirstThatLoads("SongMyung-Regular.ttf")
          /\ image_bytes[1].font_label = FirstThatLoads("Poppins-Regular.ttf")
          /\ image_bytes[1].font_date = FirstThatLoads("Poppins-Regular.ttf")
    /\ (Aborted /\ count # <<>> /\ image_bytes = <<>>) =>
          \/ today_str = <<>>
          \/ calls[Len(calls)].kind = "font_fetch" /\ ~Answered(calls[Len(calls)])

C20_Witness ==
    /\ image_bytes # <<>>
    /\ image_bytes[1].font_big = "LiberationSans-Regular.ttf"
    /\ image_bytes[1].font_label = "LiberationSans-Regular.ttf"
    /\ cacheFile = <<"">>

C20_WitnessDefault ==
    /\ image_bytes # <<>>
    /\ image_bytes[1].font_big = "load_default"
    /\ image_bytes[1].font_date = "load_default"

-----------------------------------------------------------------------------
(* The numeral on the card *)

\* Counts around the places where a group starts.
FormatInputs ==
    {n \in UNION {(b - FormatSpread)..(b + FormatSpread) : b \in {0, 1000, 1000000, 1234567}} :
        n >= 0}

\* get_paying_customers has just returned one of FormatInputs.
FormatInit ==
    /\ CHARTMOGUL_API_KEY = "cm-key"
    /\ SLACK_BOT_TOKEN = "xoxb-token"
    /\ SLACK_CHANNEL_ID = "C012AB3CD"
    /\ pc = "fetched"
    /\ run = 1
    /\ clock = 0
    /\ cacheFile \in {<<>>, <<"ttf">>}
    /\ installed = FontFiles
    /\ calls = <<Call("metric_fetch", METRIC_URL, "", isoformat(0), 200, "")>>
    /\ stdout = << <<"Fetching paying customer count from ChartMogul...">> >>
    /\ stderr = <<>>
    /\ exitStatus = <<>>
    /\ raised = <<>>
    /\ \E n \in FormatInputs :
          /\ data = <<[entries |-> <<[customers |-> n]>>]>>
          /\ count = <<n>>
    /\ today_str = <<>>
    /\ poppins_data = <<>>
    /\ image_bytes = <<>>
    /\ filename = <<>>
    /\ up_today_str = <<>>
    /\ resp1 = <<>>
    /\ resp3 = <<>>
    /\ dl = <<>>

FormatNext ==
    \/ main_after_fetch
    \/ generate_image_begin
    \/ download_poppins_fetch
    \/ download_poppins_write
    \/ generate_image_draw

SpecFormat == FormatInit /\ [][FormatNext]_vars

DigitValue(c) == CHOOSE k \in 0..9 : ToString(k) = c

RECURSIVE ParseNat(_)
ParseNat(ds) ==
    IF Len(ds) = 0 THEN 0
    ELSE 10 * ParseNat(SubSeq(ds, 1, Len(ds) - 1)) + DigitValue(ds[Len(ds)])

IsComma(c) == c = ","
IsDigit(c) == c # ","

\* C16: for a non-negative count the numeral drawn is the decimal digits of
\* the count with a comma before every group of three counted from the
\* right: no leading comma, no leading zero, every fourth character from the
\* right a comma and no other.
C16_ThousandsGrouping ==
    (image_bytes # <<>> /\ count[1] >= 0) =>
        LET str == image_bytes[1].num_str
            L == Len(str)
            digits == SelectSeq(str, IsDigit)
        IN  /\ L > 0
            /\ ~IsComma(str[1])
            /\ \A i \in 1..L : IsComma(str[i]) <=> ((L - i + 1) % 4 = 0)
            /\ \A i \in 1..Len(digits) : \E k \in 0..9 : ToString(k) = digits[i]
            /\ Len(digits) > 1 => digits[1] # "0"
            /\ ParseNat(digits) = count[1]
            /\ count[1] = 1234567 =>
                  str = <<"1", ",", "2", "3", "4", ",", "5", "6", "7">>
            /\ count[1] = 842 => str = <<"8", "4", "2">>

C16_Witness ==
    /\ image_bytes # <<>>
    /\ count = <<1000000>>
    /\ image_bytes[1].num_str = <<"1", ",", "0", "0", "0", ",", "0", "0", "0">>

-----------------------------------------------------------------------------
(* Runs that share the font cache file at the same time *)

MaxProcs == 2

\* Everything but the cache file and the concurrent runs.
runVars == << CHARTMOGUL_API_KEY, SLACK_BOT_TOKEN, SLACK_CHANNEL_ID, pc, run,
              clock, installed, calls, stdout, stderr, exitStatus, raised, data,
              count, today_str, poppins_data, image_bytes, filename,
              up_today_str, resp1, resp3 >>

\* MaxProcs runs have reached line 119 of generate_image.
CacheInit ==
    /\ CHARTMOGUL_API_KEY = "cm-key"
    /\ SLACK_BOT_TOKEN = "xoxb-token"
    /\ SLACK_CHANNEL_ID = "C012AB3CD"
    /\ pc = "main"
    /\ run = 1
    /\ clock = 0
    /\ cacheFile \in {<<>>, <<"ttf">>}
    /\ installed \in SUBSET FontFiles
    /\ calls = <<>>
    /\ stdout = <<>>
    /\ stderr = <<>>
    /\ exitStatus = <<>>
    /\ raised = <<>>
    /\ data = <<>>
    /\ count = <<>>
    /\ today_str = <<>>
    /\ poppins_data = <<>>
    /\ image_bytes = <<>>
    /\ filename = <<>>
    /\ up_today_str = <<>>
    /\ resp1 = <<>>
    /\ resp3 = <<>>
    /\ dl = [p \in 1..MaxProcs |->
                [pc |-> "exists", miss |-> FALSE, data |-> <<>>, wrote |-> FALSE,
                 loaded |-> <<>>, font |-> <<>>]]

\* `if not os.path.exists(cache_path)`
run_exists(p) ==
    /\ dl[p].pc = "exists"
    /\ dl' = [dl EXCEPT ![p].miss = cache_missing,
                        ![p].pc = IF cache_missing THEN "fetch" ELSE "load_font"]
    /\ UNCHANGED <<cacheFile, runVars>>

\* urlopen(req) and r.read()
run_fetch(p) ==
    /\ dl[p].pc = "fetch"
    /\ \/ \E status \in HttpStatuses, bytes \in FontBodies :
            /\ urlopen_ok(status)
            /\ dl' = [dl EXCEPT ![p].data = <<bytes>>, ![p].pc = "open"]
       \/ \E status \in HttpStatuses :
            /\ ~urlopen_ok(status)
            /\ dl' = [dl EXCEPT ![p].pc = "raised"]
       \/ \E reason \in NetworkReasons :
            dl' = [dl EXCEPT ![p].pc = "raised"]
    /\ UNCHANGED <<cacheFile, runVars>>

\* open(cache_path, "wb"): the file exists from here on and is empty.
run_open(p) ==
    /\ dl[p].pc = "open"
    /\ cacheFile' = <<"">>
    /\ dl' = [dl EXCEPT ![p].pc = "write"]
    /\ UNCHANGED runVars

\* f.write(data) and the close of the file.
run_write(p) ==
    /\ dl[p].pc = "write"
    /\ cacheFile' = dl[p].data
    /\ dl' = [dl EXCEPT ![p].wrote = TRUE, ![p].pc = "load_font"]
    /\ UNCHANGED runVars

\* load_font(poppins_path, 32, system_fallbacks): what the file held when it
\* was opened, and the font that came back.
run_load_font(p) ==
    /\ dl[p].pc = "load_font"
    /\ dl' = [dl EXCEPT ![p].loaded = cacheFile,
                        ![p].font = <<load_font(CACHE_PATH, system_fallbacks)>>,
                        ![p].pc = "done"]
    /\ UNCHANGED <<cacheFile, runVars>>

CacheNext ==
    \/ \E p \in DOMAIN dl : run_exists(p)
    \/ \E p \in DOMAIN dl : run_fetch(p)
    \/ \E p \in DOMAIN dl : run_open(p)
    \/ \E p \in DOMAIN dl : run_write(p)
    \/ \E p \in DOMAIN dl : run_load_font(p)

SpecCache == CacheInit /\ [][CacheNext]_vars

\* C18: with several runs on the same cache file, only a run that saw the
\* file missing writes it, a run that loses the race still gets the Poppins
\* font, and no run loads a file that is empty or partly written.
C18_ConcurrentCache ==
    \A p \in DOMAIN dl :
        /\ dl[p].pc \in {"open", "write"} \/ dl[p].wrote => dl[p].miss
        /\ dl[p].pc = "done" =>
              /\ dl[p].loaded = <<"ttf">>
              /\ dl[p].font = <<"Poppins-Regular.ttf">>

====
